---- MODULE Spec2Model ----
(***************************************************************************)
(* Swipe actions: the action descriptor utilities (SwipeActionUtils), the  *)
(* action button (SwipeActionButton.handlePress) and the swipeable row     *)
(* (SwipeableItem) wrapped around the gesture primitive.                   *)
(*                                                                         *)
(* JavaScript values are modelled as strings: Undefined is an absent       *)
(* property, "" the empty string, Null the value null.                     *)
(***************************************************************************)
EXTENDS Integers, Sequences, FiniteSets, TLC

VARIABLES
    action,        \* the descriptor the utilities / the button are given
    ret,           \* last utility call: [fn, val]
    acts,          \* the button's activations (one handlePress call each)
    presses,       \* number of press events delivered to the button
    leftActions,   \* row prop
    rightActions,  \* row prop
    threshold,     \* row prop (NoThreshold when not supplied)
    onSwipeBegin,  \* row prop: is the callback supplied
    onSwipeEnd,    \* row prop: is the callback supplied
    rowState,      \* the gesture primitive's state: closed / openLeft / openRight
    gesture,       \* the last gesture the primitive processed
    nGestures,     \* number of gestures processed
    beginCalls,    \* the sides onSwipeBegin was called with, in order
    endCalls       \* number of onSwipeEnd calls

utilVars == <<action, ret>>
buttonVars == <<acts, presses>>
rowVars == <<leftActions, rightActions, threshold, onSwipeBegin, onSwipeEnd,
             rowState, gesture, nGestures, beginCalls, endCalls>>
vars == <<action, ret, acts, presses, leftActions, rightActions, threshold,
          onSwipeBegin, onSwipeEnd, rowState, gesture, nGestures, beginCalls,
          endCalls>>

\* ------------------------------------------------------------------ bounds
MaxPresses == 2
MaxGestures == 3
MaxActions == 1
MaxRowPresses == 1

\* ------------------------------------------------------------- JS values
Undefined == "undefined"
Null == "null"
NullPreset == [null |-> TRUE]

\* JavaScript truthiness of an optional string property
Truthy(v) == v # Undefined /\ v # Null /\ v # ""

\* ------------------------------------------------------ SwipeAction.ts
SwipeActionType == {"delete", "archive", "edit", "share", "favorite", "more", "custom"}

ACTION_PRESETS ==
    [delete   |-> [label |-> "Delete",   icon |-> "Trash2",         colorKey |-> "error",         hapticsIntensity |-> "Heavy"],
     archive  |-> [label |-> "Archive",  icon |-> "Archive",        colorKey |-> "success",       hapticsIntensity |-> "Medium"],
     edit     |-> [label |-> "Edit",     icon |-> "Pencil",         colorKey |-> "primary",       hapticsIntensity |-> "Light"],
     share    |-> [label |-> "Share",    icon |-> "Share2",         colorKey |-> "secondary",     hapticsIntensity |-> "Light"],
     favorite |-> [label |-> "Favorite", icon |-> "Heart",          colorKey |-> "warning",       hapticsIntensity |-> "Light"],
     more     |-> [label |-> "More",     icon |-> "MoveHorizontal", colorKey |-> "textSecondary", hapticsIntensity |-> "Light"]]

DEFAULT_SWIPE_CONFIG == [threshold |-> 80, disableOvershoot |-> TRUE, friction |-> 2]

\* The descriptors a caller can hand over (SwipeActionConfig as JavaScript
\* sees it: every optional property absent, empty or set).
LabelValues == {Undefined, "", "Block"}
IconValues == {Undefined, "", "ban"}
ColorValues == {Undefined, "", "#FF0000"}
OnPressValues == {Undefined, "notAFunction", "function"}
EnableHapticsValues == {Undefined, "true", "false"}

SwipeActionConfig ==
    [type : SwipeActionType, label : LabelValues, icon : IconValues,
     color : ColorValues, onPress : OnPressValues,
     enableHaptics : EnableHapticsValues]

getPreset(type) ==
    IF type = "custom" THEN NullPreset ELSE ACTION_PRESETS[type]

\* preset?.field || fallback
PresetOr(preset, field, fallback) ==
    IF preset = NullPreset THEN fallback
    ELSE IF Truthy(preset[field]) THEN preset[field] ELSE fallback

validateActionNoCustomCheck(a) ==
    a.onPress = "function"

validateAction(a) ==
    IF ~(a.onPress # Undefined) \/ a.onPress # "function" THEN FALSE
    ELSE IF a.type = "custom"
         THEN Truthy(a.label) /\ Truthy(a.icon) /\ Truthy(a.color)
         ELSE TRUE

getLabelPresetFirst(a) ==
    IF a.type # "custom" THEN ACTION_PRESETS[a.type].label
    ELSE IF Truthy(a.label) THEN a.label ELSE "Action"

getLabel(a) ==
    IF Truthy(a.label) THEN a.label
    ELSE PresetOr(getPreset(a.type), "label", "Action")

getIcon(a) ==
    IF Truthy(a.icon) THEN a.icon
    ELSE PresetOr(getPreset(a.type), "icon", "MoveHorizontal")

getColorKey(a) ==
    IF Truthy(a.color) THEN Null
    ELSE PresetOr(getPreset(a.type), "colorKey", Null)

getHapticsIntensity(a) ==
    PresetOr(getPreset(a.type), "hapticsIntensity", "Light")

\* ------------------------------------------- utility calls (SpecUtils)
NoRet == [fn |-> "none", val |-> Undefined]
Bool(b) == IF b THEN "true" ELSE "false"

CallValidateAction ==
    /\ ret' = [fn |-> "validateAction", val |-> Bool(validateAction(action))]
    /\ UNCHANGED <<action, buttonVars, rowVars>>

CallGetLabel ==
    /\ ret' = [fn |-> "getLabel", val |-> getLabel(action)]
    /\ UNCHANGED <<action, buttonVars, rowVars>>

CallGetIcon ==
    /\ ret' = [fn |-> "getIcon", val |-> getIcon(action)]
    /\ UNCHANGED <<action, buttonVars, rowVars>>

CallGetColorKey ==
    /\ ret' = [fn |-> "getColorKey", val |-> getColorKey(action)]
    /\ UNCHANGED <<action, buttonVars, rowVars>>

CallGetHapticsIntensity ==
    /\ ret' = [fn |-> "getHapticsIntensity", val |-> getHapticsIntensity(action)]
    /\ UNCHANGED <<action, buttonVars, rowVars>>

\* --------------------------------------------- SwipeActionButton (button)
Ev(e, v) == [e |-> e, v |-> v]
Count(log, e) == Cardinality({k \in 1..Len(log) : log[k].e = e})
Has(log, e) == \E k \in 1..Len(log) : log[k].e = e
Settled(act) == act.pc \in {"resolved", "rejected"}

\* const enableHaptics = action.enableHaptics !== false
enableHaptics(a) == a.enableHaptics # "false"

\* The argument handlePress gives HapticService.impact
impactArg(a) ==
    LET intensity == getHapticsIntensity(a)
    IN  IF intensity = "Light" THEN "Light"
        ELSE IF intensity = "Medium" THEN "Medium"
        ELSE "Heavy"

\* const backgroundColor = customColor || (colorKey ? tokens.colors[colorKey] : tokens.colors.primary)
backgroundColor(a) ==
    IF Truthy(a.color) THEN [from |-> "custom", value |-> a.color]
    ELSE IF Truthy(getColorKey(a)) THEN [from |-> "tokens", value |-> getColorKey(a)]
    ELSE [from |-> "tokens", value |-> "primary"]

\* What the component returns: always a pressable surface, whatever the
\* descriptor (validateAction is not consulted).
SwipeActionButton(a) ==
    [pressable |-> TRUE, label |-> getLabel(a), icon |-> getIcon(a),
     backgroundColor |-> backgroundColor(a)]

\* await action.onPress(): the call. Calling a value that is not a
\* function throws a TypeError inside the async function.
invokeHandler(act, a) ==
    IF a.onPress = "function"
    THEN [act EXCEPT !.pc = "awaitHandler", !.log = Append(@, Ev("onPress", "call"))]
    ELSE [act EXCEPT !.pc = "rejected", !.error = "TypeError"]

invokeHandlerFirst(act, a) ==
    IF enableHaptics(a)
    THEN invokeHandler([act EXCEPT !.log = Append(@, Ev("impact", impactArg(a)))], a)
    ELSE invokeHandler(act, a)

\* handlePress up to its first await
handlePressStart(act, a) ==
    IF enableHaptics(a)
    THEN [act EXCEPT !.pc = "awaitHaptic", !.log = Append(@, Ev("impact", impactArg(a)))]
    ELSE invokeHandler(act, a)

\* await HapticService.impact(...) throws: nothing catches it
hapticRejected(act) ==
    [act EXCEPT !.pc = "rejected", !.error = "haptic"]

handlerRejectedSwallowed(act) ==
    [act EXCEPT !.pc = "resolved"]

\* await action.onPress() throws: nothing catches it, nothing retries
handlerRejected(act) ==
    [act EXCEPT !.pc = "rejected", !.error = "handler"]

\* The action prop handlePress closes over: the row's descriptor for a button
\* the row rendered, the button's own descriptor otherwise.
actionOf(act) ==
    IF "button" \in DOMAIN act
    THEN IF act.button[1] = "left" THEN leftActions[act.button[2]]
         ELSE rightActions[act.button[2]]
    ELSE action

NewActivation ==
    [pc |-> "start", error |-> "none", log |-> << >>,
     pendingAtPress |-> Cardinality({k \in 1..Len(acts) : ~Settled(acts[k])}),
     settledAtPress |-> Cardinality({k \in 1..Len(acts) : Settled(acts[k])})]

PressLockedAfterFailure ==
    /\ presses < MaxPresses
    /\ presses' = presses + 1
    /\ acts' = IF \E k \in 1..Len(acts) : acts[k].pc = "rejected"
               THEN acts
               ELSE Append(acts, handlePressStart(NewActivation, action))
    /\ UNCHANGED <<utilVars, rowVars>>

\* onPress={handlePress}: every press event calls handlePress
Press ==
    /\ presses < MaxPresses
    /\ SwipeActionButton(action).pressable
    /\ presses' = presses + 1
    /\ acts' = Append(acts, handlePressStart(NewActivation, action))
    /\ UNCHANGED <<utilVars, rowVars>>

\* HapticService.impact's promise resolves: handlePress goes on to the handler
HapticResolve ==
    \E i \in 1..Len(acts) :
        /\ acts[i].pc = "awaitHaptic"
        /\ acts' = [acts EXCEPT ![i] =
                      invokeHandler([@ EXCEPT !.log = Append(@, Ev("impactDone", "ok"))], actionOf(@))]
        /\ UNCHANGED <<presses, utilVars, rowVars>>

\* HapticService.impact's promise rejects
HapticReject ==
    \E i \in 1..Len(acts) :
        /\ acts[i].pc = "awaitHaptic"
        /\ acts' = [acts EXCEPT ![i] =
                      hapticRejected([@ EXCEPT !.log = Append(@, Ev("impactDone", "rejected"))])]
        /\ UNCHANGED <<presses, utilVars, rowVars>>

\* the handler returns, or its promise resolves
HandlerResolve ==
    \E i \in 1..Len(acts) :
        /\ acts[i].pc = "awaitHandler"
        /\ acts' = [acts EXCEPT ![i] =
                      [@ EXCEPT !.pc = "resolved", !.log = Append(@, Ev("onPressDone", "ok"))]]
        /\ UNCHANGED <<presses, utilVars, rowVars>>

\* the handler throws, or its promise rejects
HandlerReject ==
    \E i \in 1..Len(acts) :
        /\ acts[i].pc = "awaitHandler"
        /\ acts' = [acts EXCEPT ![i] =
                      handlerRejected([@ EXCEPT !.log = Append(@, Ev("onPressDone", "rejected"))])]
        /\ UNCHANGED <<presses, utilVars, rowVars>>

\* ------------------------------------------------------ useSwipeActions
\* The factories: the type, the handler, enableHaptics: true, no overrides.
createAction(type) ==
    [type |-> type, label |-> Undefined, icon |-> Undefined, color |-> Undefined,
     onPress |-> "function", enableHaptics |-> "true"]

createDeleteAction == createAction("delete")
createArchiveAction == createAction("archive")

\* ------------------------------------------------------- SwipeableItem
Sides == {"left", "right"}
Open(side) == IF side = "left" THEN "openLeft" ELSE "openRight"

\* threshold = DEFAULT_SWIPE_CONFIG.threshold when the prop is not supplied
NoThreshold == 0 - 1

thresholdOrDefault ==
    IF threshold = NoThreshold THEN DEFAULT_SWIPE_CONFIG.threshold ELSE threshold

\* leftThreshold={threshold} rightThreshold={threshold}
leftThresholdDefaultOnly == DEFAULT_SWIPE_CONFIG.threshold
leftThreshold == thresholdOrDefault
rightThreshold == thresholdOrDefault

\* renderLeftActions={leftActions.length > 0 ? renderLeftActions : undefined}
\* (TRUE: the renderer is handed to the primitive)
renderRightActionsAlways == TRUE
renderLeftActionsProp == Len(leftActions) > 0
renderRightActionsProp == Len(rightActions) > 0

\* renderLeftActions / renderRightActions: null for an empty list, else one
\* button per action, in order
renderActions(actions) ==
    IF Len(actions) = 0 THEN << >>
    ELSE [k \in 1..Len(actions) |-> SwipeActionButton(actions[k])]

onSwipeableWillOpenSideDropped(calls, direction) ==
    IF onSwipeBegin THEN Append(calls, "left") ELSE calls

\* onSwipeableWillOpen={(direction) => { onSwipeBegin?.(direction) }}
onSwipeableWillOpen(calls, direction) ==
    IF onSwipeBegin THEN Append(calls, direction) ELSE calls

\* onSwipeableClose={() => { onSwipeEnd?.() }}
onSwipeableClose(n) ==
    IF onSwipeEnd THEN n + 1 ELSE n

\* --------------------------------------- the gesture primitive (Swipeable)
\* The primitive owns the open/closed state. It is given the thresholds and
\* the renderers, evaluates a released drag against the threshold of its
\* side, and reports "will open <side>" and "closed".
DragPeaks == {0, 39, 40, 41, 79, 80, 81, 119, 120, 121}
ThresholdValues == {NoThreshold, 40, 120}

hasRenderer(side) ==
    IF side = "left" THEN renderLeftActionsProp ELSE renderRightActionsProp

sideThreshold(side) ==
    IF side = "left" THEN leftThreshold ELSE rightThreshold

\* a drag past the side's threshold commits; one that stops at exactly the
\* threshold may go either way
mayCommit(side, peak) == hasRenderer(side) /\ peak >= sideThreshold(side)
mayCancel(side, peak) == ~hasRenderer(side) \/ peak <= sideThreshold(side)

\* the buttons on screen: the open side's renderer output
renderedButtons ==
    IF rowState = "openLeft" /\ renderLeftActionsProp THEN renderActions(leftActions)
    ELSE IF rowState = "openRight" /\ renderRightActionsProp THEN renderActions(rightActions)
    ELSE << >>

\* A press on button k of the open side: the row rendered it with
\* action={action}, so its handlePress runs with that descriptor.
RowActivation(side, k) == [button |-> <<side, k>>] @@ NewActivation

sideActions(side) == IF side = "left" THEN leftActions ELSE rightActions

RowPress ==
    \E side \in Sides :
        \E k \in 1..Len(sideActions(side)) :
            /\ presses < MaxRowPresses
            /\ rowState = Open(side)
            /\ hasRenderer(side)
            /\ renderActions(sideActions(side))[k].pressable
            /\ presses' = presses + 1
            /\ acts' = Append(acts, handlePressStart(RowActivation(side, k),
                                                    sideActions(side)[k]))
            /\ UNCHANGED <<utilVars, rowVars>>

\* The two lifecycle handlers the row gives the primitive: each makes its
\* callback call and nothing else (no action handler, no haptic request).
willOpenHandlerRunsFirstAction(direction) ==
    /\ beginCalls' = onSwipeableWillOpen(beginCalls, direction)
    /\ presses' = presses
    /\ acts' = Append(acts, handlePressStart(RowActivation(direction, 1),
                                            sideActions(direction)[1]))

willOpenHandler(direction) ==
    /\ beginCalls' = onSwipeableWillOpen(beginCalls, direction)
    /\ UNCHANGED <<acts, presses>>

closeHandler ==
    /\ endCalls' = onSwipeableClose(endCalls)
    /\ UNCHANGED <<acts, presses>>

\* a drag on one side is released past the threshold: the primitive reports
\* "will open <side>" and opens that side
DragCommit ==
    \E side \in Sides, peak \in DragPeaks :
        /\ nGestures < MaxGestures
        /\ rowState # Open(side)
        /\ mayCommit(side, peak)
        /\ nGestures' = nGestures + 1
        /\ gesture' = [kind |-> "commit", side |-> side, peak |-> peak, closedEvent |-> FALSE]
        /\ rowState' = Open(side)
        /\ willOpenHandler(side)
        /\ UNCHANGED <<endCalls, leftActions, rightActions, threshold,
                       onSwipeBegin, onSwipeEnd, utilVars>>

\* a drag from closed is released before commit (or interrupted): the row
\* settles closed again; the primitive may report "closed" for it
DragCancel ==
    \E side \in Sides, peak \in DragPeaks, closedEvent \in BOOLEAN :
        /\ nGestures < MaxGestures
        /\ rowState = "closed"
        /\ mayCancel(side, peak)
        /\ nGestures' = nGestures + 1
        /\ gesture' = [kind |-> "cancel", side |-> side, peak |-> peak, closedEvent |-> closedEvent]
        /\ rowState' = "closed"
        /\ IF closedEvent THEN closeHandler ELSE UNCHANGED <<endCalls, acts, presses>>
        /\ UNCHANGED <<beginCalls, leftActions, rightActions, threshold,
                       onSwipeBegin, onSwipeEnd, utilVars>>

\* an open row is dragged shut: the primitive reports "closed"
DragClose ==
    \E side \in Sides :
        /\ nGestures < MaxGestures
        /\ rowState = Open(side)
        /\ nGestures' = nGestures + 1
        /\ gesture' = [kind |-> "close", side |-> side, peak |-> 0, closedEvent |-> TRUE]
        /\ rowState' = "closed"
        /\ closeHandler
        /\ UNCHANGED <<beginCalls, leftActions, rightActions, threshold,
                       onSwipeBegin, onSwipeEnd, utilVars>>

NoGesture == [kind |-> "none", side |-> "none", peak |-> 0, closedEvent |-> FALSE]

IdleButton ==
    /\ acts = << >>
    /\ presses = 0

IdleRow ==
    /\ leftActions = << >>
    /\ rightActions = << >>
    /\ threshold = NoThreshold
    /\ onSwipeBegin = FALSE
    /\ onSwipeEnd = FALSE
    /\ rowState = "closed"
    /\ gesture = NoGesture
    /\ nGestures = 0
    /\ beginCalls = << >>
    /\ endCalls = 0

InitUtils ==
    /\ action \in SwipeActionConfig
    /\ ret = NoRet
    /\ IdleButton
    /\ IdleRow

NextUtils ==
    \/ CallValidateAction
    \/ CallGetLabel
    \/ CallGetIcon
    \/ CallGetColorKey
    \/ CallGetHapticsIntensity

SpecUtils == InitUtils /\ [][NextUtils]_vars

InitButton ==
    /\ action \in SwipeActionConfig
    /\ ret = NoRet
    /\ IdleButton
    /\ IdleRow

NextButton ==
    \/ Press
    \/ HapticResolve
    \/ HapticReject
    \/ HandlerResolve
    \/ HandlerReject

SpecButton == InitButton /\ [][NextButton]_vars

\* ================================================================ claims
In(log, ev) == \E k \in 1..Len(log) : log[k] = ev
Last(seq) == seq[Len(seq)]

\* C1: a press issued while an earlier activation of the same button has not
\* settled is ignored: it requests no haptic feedback and never invokes the
\* handler, so two overlapping presses invoke the handler once in total.
C1_AtMostOneConcurrentActivation ==
    action.onPress = "function" =>
        \A i \in 1..Len(acts) :
            acts[i].pendingAtPress > 0 =>
                ~Has(acts[i].log, "impact") /\ ~Has(acts[i].log, "onPress")

\* C2: with haptics enabled, a haptic request that rejects does not keep the
\* handler from being invoked once, and the rejection does not surface out
\* of the activation.
C2_HapticFailureNeverBlocks ==
    (action.onPress = "function" /\ action.enableHaptics \in {Undefined, "true"}) =>
        \A i \in 1..Len(acts) :
            In(acts[i].log, Ev("impactDone", "rejected")) =>
                /\ Count(acts[i].log, "onPress") = 1
                /\ acts[i].error # "haptic"

\* C3: an activation that succeeded made exactly one handler invocation;
\* with enableHaptics absent or true it made exactly one haptic request, at
\* the action's intensity, which completed before the handler was invoked;
\* with enableHaptics false it made no haptic request.
ResolvedIntensity(a) ==
    IF a.type = "custom" THEN "Light" ELSE ACTION_PRESETS[a.type].hapticsIntensity

C3_OneHapticThenOneHandler ==
    \A i \in 1..Len(acts) :
        acts[i].pc = "resolved" =>
            IF action.enableHaptics \in {Undefined, "true"}
            THEN acts[i].log = << Ev("impact", ResolvedIntensity(action)),
                                  Ev("impactDone", "ok"),
                                  Ev("onPress", "call"),
                                  Ev("onPressDone", "ok") >>
            ELSE acts[i].log = << Ev("onPress", "call"), Ev("onPressDone", "ok") >>

C3_Witness ==
    /\ action.type = "delete"
    /\ action.enableHaptics = Undefined
    /\ \E i \in 1..Len(acts) :
          acts[i].pc = "resolved" /\ In(acts[i].log, Ev("impact", "Heavy"))

\* C4: a descriptor that validateAction rejects has no effect: its button
\* cannot be activated, so no haptic request and no handler invocation is
\* ever made for it.
C4_InvalidDescriptorHasNoEffect ==
    ~validateAction(action) =>
        \A i \in 1..Len(acts) :
            ~Has(acts[i].log, "impact") /\ ~Has(acts[i].log, "onPress")

\* C7: once an activation has settled (resolved or rejected), the next press
\* is not ignored: it starts a new activation, which requests the haptic
\* feedback or, with haptics off, invokes the handler at once.
C7_RetryAfterSettle ==
    [][ (presses' = presses + 1 /\ \E k \in 1..Len(acts) : Settled(acts[k])) =>
            /\ Len(acts') = Len(acts) + 1
            /\ action.enableHaptics \in {Undefined, "true"} =>
                   Has(Last(acts').log, "impact")
            /\ (action.enableHaptics = "false" /\ action.onPress = "function") =>
                   Has(Last(acts').log, "onPress") ]_vars

C7_Witness ==
    /\ Len(acts) = 2
    /\ acts[1].pc = "rejected" /\ acts[1].error = "handler"
    /\ acts[2].settledAtPress = 1
    /\ Has(acts[2].log, "onPress")

\* C8: when the handler rejects or throws, the activation fails with that
\* failure (nothing catches it) and the handler has been invoked once only.
C8_HandlerFailurePropagates ==
    \A i \in 1..Len(acts) :
        In(acts[i].log, Ev("onPressDone", "rejected")) =>
            /\ acts[i].pc = "rejected"
            /\ acts[i].error = "handler"
            /\ Count(acts[i].log, "onPress") = 1

C8_Witness ==
    \E i \in 1..Len(acts) :
        /\ In(acts[i].log, Ev("onPressDone", "rejected"))
        /\ In(acts[i].log, Ev("impactDone", "ok"))

\* C5 as stated: each attribute resolves to the explicit value whenever the
\* descriptor has one, else to the preset's value for a preset type, else to
\* the fallback (no fallback for the color).
Precedence(has, explicit, type, field, fallback) ==
    IF has THEN explicit
    ELSE IF type # "custom" THEN ACTION_PRESETS[type][field]
    ELSE fallback

C5_ResolutionPrecedence ==
    /\ ret.fn = "getLabel" =>
          ret.val = Precedence(action.label # Undefined, action.label,
                               action.type, "label", "Action")
    /\ ret.fn = "getIcon" =>
          ret.val = Precedence(action.icon # Undefined, action.icon,
                               action.type, "icon", "MoveHorizontal")
    /\ ret.fn = "getColorKey" =>
          ret.val = Precedence(action.color # Undefined, Null,
                               action.type, "colorKey", Null)
    /\ ret.fn = "getHapticsIntensity" =>
          ret.val = Precedence(FALSE, Undefined,
                               action.type, "hapticsIntensity", "Light")

\* C5 amended: the explicit value wins when it is present and not empty; an
\* empty explicit value resolves like an absent one.
NonEmpty(v) == v # Undefined /\ v # ""

C5_ResolutionPrecedenceNonEmpty ==
    /\ ret.fn = "getLabel" =>
          ret.val = Precedence(NonEmpty(action.label), action.label,
                               action.type, "label", "Action")
    /\ ret.fn = "getIcon" =>
          ret.val = Precedence(NonEmpty(action.icon), action.icon,
                               action.type, "icon", "MoveHorizontal")
    /\ ret.fn = "getColorKey" =>
          ret.val = Precedence(NonEmpty(action.color), Null,
                               action.type, "colorKey", Null)
    /\ ret.fn = "getHapticsIntensity" =>
          ret.val = Precedence(FALSE, Undefined,
                               action.type, "hapticsIntensity", "Light")

C5_Witness ==
    /\ ret.fn = "getLabel"
    /\ action.type = "delete"
    /\ action.label = ""
    /\ action.color = "#FF0000"
    /\ ret.val = "Delete"

\* C6: validateAction answers false exactly when there is no handler, or the
\* type is custom and label, icon or color is absent or empty.
NoHandler(a) == a.onPress \in {Undefined, "notAFunction"}

C6_CustomValidation ==
    ret.fn = "validateAction" =>
        ( ret.val = "false" <=>
            \/ NoHandler(action)
            \/ /\ action.type = "custom"
               /\ \/ action.label \in {Undefined, ""}
                  \/ action.icon \in {Undefined, ""}
                  \/ action.color \in {Undefined, ""} )

C6_Witness ==
    /\ ret.fn = "validateAction"
    /\ ret.val = "false"
    /\ action.type = "custom"
    /\ action.onPress = "function"
    /\ action.label = "Block" /\ action.icon = "ban" /\ action.color = ""

RowActionLists ==
    UNION {[1..n -> {createDeleteAction, createArchiveAction}] : n \in 0..MaxActions}

InitRow ==
    /\ action = createDeleteAction
    /\ ret = NoRet
    /\ IdleButton
    /\ leftActions \in RowActionLists
    /\ rightActions \in RowActionLists
    /\ threshold \in ThresholdValues
    /\ onSwipeBegin \in BOOLEAN
    /\ onSwipeEnd \in BOOLEAN
    /\ rowState = "closed"
    /\ gesture = NoGesture
    /\ nGestures = 0
    /\ beginCalls = << >>
    /\ endCalls = 0

NextRow ==
    \/ DragCommit
    \/ DragCancel
    \/ DragClose

SpecRow == InitRow /\ [][NextRow]_vars

C10_ThresholdGating ==
    [][ (nGestures' = nGestures + 1 /\ rowState = "closed") =>
            /\ gesture'.peak < thresholdOrDefault =>
                  /\ gesture'.kind = "cancel"
                  /\ rowState' = "closed"
                  /\ beginCalls' = beginCalls
            /\ gesture'.kind = "commit" =>
                  /\ gesture'.peak >= thresholdOrDefault
                  /\ rowState' = Open(gesture'.side)
                  /\ onSwipeBegin => beginCalls' = Append(beginCalls, gesture'.side)
            /\ gesture'.kind = "cancel" => beginCalls' = beginCalls ]_vars

C10_Witness ==
    /\ threshold = 120
    /\ onSwipeBegin
    /\ nGestures = 2
    /\ gesture.kind = "commit" /\ gesture.side = "right" /\ gesture.peak = 121
    /\ rowState = "openRight"
    /\ beginCalls = << "right" >>

\* C11: with both callbacks supplied, onSwipeEnd calls pair with onSwipeBegin
\* calls: there are never more ends than begins, and whenever the row is
\* closed every begin has had its end.
C11_LifecyclePairing ==
    (onSwipeBegin /\ onSwipeEnd) =>
        /\ endCalls <= Len(beginCalls)
        /\ rowState = "closed" => endCalls = Len(beginCalls)

\* C13: the row forwards the primitive's events one to one and keeps no
\* state: a "will open <side>" makes one onSwipeBegin call with that side, a
\* "closed" makes one onSwipeEnd call, whatever came before; a callback that
\* is not supplied gets no call; nothing else makes a lifecycle call.
C13_ForwardsOneToOne ==
    [][ /\ nGestures' = nGestures + 1 =>
              /\ beginCalls' = IF gesture'.kind = "commit" /\ onSwipeBegin
                               THEN Append(beginCalls, gesture'.side)
                               ELSE beginCalls
              /\ endCalls' = IF gesture'.closedEvent /\ onSwipeEnd
                             THEN endCalls + 1
                             ELSE endCalls
        /\ nGestures' = nGestures =>
              beginCalls' = beginCalls /\ endCalls' = endCalls ]_vars

C13_Witness ==
    /\ onSwipeBegin /\ onSwipeEnd
    /\ nGestures = 3
    /\ beginCalls = << "left", "right" >>
    /\ rowState = "openRight"
    /\ gesture.kind = "commit"
    /\ endCalls = 1

\* The row with its buttons: gestures, presses on the buttons of the open
\* side, and the completions of what a press awaits. Archive actions on the
\* left, delete actions on the right, default threshold, both callbacks.
InitRowButtons ==
    /\ InitRow
    /\ threshold = NoThreshold
    /\ onSwipeBegin
    /\ onSwipeEnd
    /\ \A k \in 1..Len(leftActions) : leftActions[k] = createArchiveAction
    /\ \A k \in 1..Len(rightActions) : rightActions[k] = createDeleteAction

NextRowButtons ==
    \/ DragCommit
    \/ DragCancel
    \/ DragClose
    \/ RowPress
    \/ HapticResolve
    \/ HapticReject
    \/ HandlerResolve
    \/ HandlerReject

SpecRowButtons == InitRowButtons /\ [][NextRowButtons]_vars

\* C12: no gesture event (commit, cancel, close) makes a haptic request or
\* invokes an action handler: a gesture step leaves every activation as it
\* was. An activation starts only with a press on a button of the open side,
\* and it requests the haptic feedback of that button's own action.
C12_NoHandlerWithoutTap ==
    [][ /\ nGestures' # nGestures => acts' = acts
        /\ Len(acts') # Len(acts) =>
              /\ presses' = presses + 1
              /\ Len(acts') = Len(acts) + 1
              /\ LET b == Last(acts').button
                 IN  /\ rowState = Open(b[1])
                     /\ b[2] \in 1..Len(sideActions(b[1]))
                     /\ Last(acts').log =
                           << Ev("impact", ResolvedIntensity(sideActions(b[1])[b[2]])) >> ]_vars

C12_Witness ==
    /\ nGestures = 3
    /\ gesture.kind = "close"
    /\ rowState = "closed"
    /\ Len(acts) = 1
    /\ acts[1].button = << "right", 1 >>
    /\ acts[1].pc = "resolved"
    /\ Count(acts[1].log, "onPress") = 1

====
